---------------------------- MODULE Spec2Model ----------------------------
(***************************************************************************)
(* LinkGate: StablecoinEscrow and AgentRegistry (Solidity), the            *)
(* VerificationEngine and the marketplace workflow (TypeScript), and the   *)
(* CRE orchestrator cycle, as state machines.                              *)
(*                                                                         *)
(* Specifications:                                                         *)
(*   Spec         StablecoinEscrow with the MockUSDC token of the tests    *)
(*   SpecVerify   VerificationEngine.verify inside runMarketplaceWorkflow  *)
(*   SpecCron     the CRE orchestrator cycle (onCronTrigger)               *)
(*   SpecScore    AgentRegistry with one agent and a long outcome history  *)
(*   SpecRegistry AgentRegistry: its four external functions, two agents   *)
(*   SpecDeactivation  one agent: recorded outcomes and metadata updates   *)
(*   SpecReentrant  StablecoinEscrow with a token that calls back into it  *)
(*   SpecSoftToken  StablecoinEscrow with a token that returns false       *)
(*   SpecCounters   recordOutcome as reported by the orchestrator          *)
(*   SpecConsensus  verifyResults on every list of three results           *)
(*   SpecTaskKey    a cycle configured for the locked task or another one  *)
(***************************************************************************)
EXTENDS Integers, Sequences, FiniteSets

VARIABLES
    payments,     \* StablecoinEscrow.payments : taskId -> Payment
    balanceOf,    \* MockUSDC.balanceOf
    allowance,    \* MockUSDC.allowance[holder][escrow]
    lastCall,     \* the last external call to the escrow and how it ended
    nested,       \* the call made into the escrow from inside the token
                  \*   transfer of lastCall, and how it ended (NoCall: none)
    agentResults, \* runMarketplaceWorkflow: the AgentResult list collected so far
    sla,          \* runMarketplaceWorkflow: request.sla ?? DEFAULT_SLA
    report,       \* the VerificationReport returned by VerificationEngine.verify
    wfPc,         \* runMarketplaceWorkflow: "dispatch", "verified", "done"
    wfSettled,    \* the actions passed to settleEscrow by the workflow, in order
    agents,       \* AgentRegistry.agents : address -> Agent
    agentList,    \* AgentRegistry.agentList
    orchestrators,\* AgentRegistry.orchestrators : address -> bool
    regCall,      \* the last external call to the registry and how it ended
    config,       \* CRE orchestrator: runtime.config (agentEndpoints, taskId)
    cronPc,       \* onCronTrigger: "idle", "fetch", "settle", "reputation", then
                  \*   "done" (returned), "aborted" (returned early), "error" (threw)
    endpoints,    \* onCronTrigger: the endpoints of the running cycle
    results,      \* onCronTrigger: the AgentResult list collected so far
    passed,       \* onCronTrigger: verifyResults(results)
    settleCalls,  \* settlement calls the running cycle has issued, in order
    repCalls,     \* recordOutcome calls the running cycle has issued, in order
    repIdx        \* onCronTrigger: position of the reputation loop in results

escrowVars == <<payments, balanceOf, allowance, lastCall, nested>>
verifyVars == <<agentResults, sla, report, wfPc, wfSettled>>
registryVars == <<agents, agentList, orchestrators, regCall>>
cronVars == <<config, cronPc, endpoints, results, passed, settleCalls,
              repCalls, repIdx>>
vars == <<payments, balanceOf, allowance, lastCall, nested,
          agentResults, sla, report, wfPc, wfSettled,
          agents, agentList, orchestrators, regCall,
          config, cronPc, endpoints, results, passed, settleCalls,
          repCalls, repIdx>>
notEscrowVars == <<verifyVars, registryVars, cronVars>>
notVerifyVars == <<escrowVars, registryVars, cronVars>>
notRegistryVars == <<escrowVars, verifyVars, cronVars>>

-----------------------------------------------------------------------------
(* Bounds of the model *)

MaxAmount == 2        \* lockPayment amounts are drawn from 0..MaxAmount
InitialFunds == 2     \* tokens minted to each funded account
InitialAllowance == 3 \* allowance each funded account grants the escrow
MaxScoreTasks == 50   \* SpecScore: recordOutcome calls per agent
MaxRegTasks == 1      \* SpecRegistry: recordOutcome calls that are recorded, over all agents
MaxVersion == 1       \* highest metadataVersion an updateMetadata call may start from
MaxLifeTasks == 6     \* SpecDeactivation: recordOutcome calls on the agent
MaxReported == 4      \* SpecCounters: outcomes recorded over all agents

-----------------------------------------------------------------------------
(* Addresses *)

ZERO == "0x0"                  \* address(0)
ESCROW == "escrow"             \* address(this) of StablecoinEscrow
orchestrator == "orch"         \* constructor argument _orchestrator
owner == "owner"               \* msg.sender of the constructor
EOA == {"orch", "buyer", "seller", "outsider", "owner"}
Address == EOA \cup {ZERO, ESCROW}
Funded == {"buyer", "outsider"}
Lockers == Funded \cup {"seller"}   \* callers of lockPayment; "seller" holds no funds
Sellers == {"seller", ESCROW}
TaskIds == {"task-a", "task-b"}
Amounts == 0..MaxAmount

\* mapping default: a Payment slot that was never written
NoPayment ==
    [buyer |-> ZERO, seller |-> ZERO, amount |-> 0,
     isReleased |-> FALSE, isRefunded |-> FALSE]

Payment ==
    [buyer : Address, seller : Address, amount : Nat,
     isReleased : BOOLEAN, isRefunded : BOOLEAN]

-----------------------------------------------------------------------------
(* MockUSDC: a call yields the error string ("" when it returns true) and   *)
(* the token state after it; a revert leaves the token state as it was.     *)

transferFrom(bal, allw, from, to, amount) ==
    IF allw[from] < amount
    THEN [err |-> "USDC: allowance too low", balanceOf |-> bal, allowance |-> allw]
    ELSE IF bal[from] < amount
    THEN [err |-> "Panic(0x11)", balanceOf |-> bal, allowance |-> allw]
    ELSE LET b1 == [bal EXCEPT ![from] = @ - amount]
         IN  [err |-> "",
              balanceOf |-> [b1 EXCEPT ![to] = @ + amount],
              allowance |-> [allw EXCEPT ![from] = @ - amount]]

transfer(bal, sender, to, amount) ==
    IF bal[sender] < amount
    THEN [err |-> "USDC: insufficient balance", balanceOf |-> bal]
    ELSE LET b1 == [bal EXCEPT ![sender] = @ - amount]
         IN  [err |-> "", balanceOf |-> [b1 EXCEPT ![to] = @ + amount]]

-----------------------------------------------------------------------------
(* StablecoinEscrow *)

onlyOrchestratorMutOwner(sender) == sender = orchestrator \/ sender = owner

\* modifier onlyOrchestrator: require(msg.sender == orchestrator)
onlyOrchestrator(sender) == sender = orchestrator

\* lockPayment's guard, negated: payments[_taskId].amount != 0
TaskExists(p) == p.amount # 0

AlreadySettledMutRelease(p) == p.isReleased

\* the settle guard, negated: p.isReleased || p.isRefunded
AlreadySettled(p) == p.isReleased \/ p.isRefunded

lockPaymentResultMutAllSlots(pay, bal, allw, sender, taskId, seller, amount) ==
    IF TaskExists(pay[taskId])
    THEN [err |-> "Task already exists", payments |-> pay,
          balanceOf |-> bal, allowance |-> allw]
    ELSE LET t == transferFrom(bal, allw, sender, ESCROW, amount)
         IN  IF t.err # ""
             THEN [err |-> t.err, payments |-> pay,
                   balanceOf |-> bal, allowance |-> allw]
             ELSE [err |-> "",
                   payments |-> [k \in DOMAIN pay |->
                        [buyer |-> sender, seller |-> seller, amount |-> amount,
                         isReleased |-> FALSE, isRefunded |-> FALSE]],
                   balanceOf |-> t.balanceOf, allowance |-> t.allowance]

\* What lockPayment does to (payments, token): err # "" is a revert.
lockPaymentResult(pay, bal, allw, sender, taskId, seller, amount) ==
    IF TaskExists(pay[taskId])
    THEN [err |-> "Task already exists", payments |-> pay,
          balanceOf |-> bal, allowance |-> allw]
    ELSE LET t == transferFrom(bal, allw, sender, ESCROW, amount)
         IN  IF t.err # ""
             THEN [err |-> t.err, payments |-> pay,
                   balanceOf |-> bal, allowance |-> allw]
             ELSE [err |-> "",
                   payments |-> [pay EXCEPT ![taskId] =
                        [buyer |-> sender, seller |-> seller, amount |-> amount,
                         isReleased |-> FALSE, isRefunded |-> FALSE]],
                   balanceOf |-> t.balanceOf, allowance |-> t.allowance]

releaseMarkMutBoth(p) == [p EXCEPT !.isReleased = TRUE, !.isRefunded = TRUE]

\* p.isReleased = true
releaseMark(p) == [p EXCEPT !.isReleased = TRUE]

\* p.isRefunded = true
refundMark(p) == [p EXCEPT !.isRefunded = TRUE]

\* the receiver of releasePayment's transfer
releasePayee(p) == p.seller

\* the receiver of refundPayment's transfer
refundPayee(p) == p.buyer

\* releasePayment / refundPayment share their shape: guard, mark, transfer.
settleResult(pay, bal, sender, taskId, action) ==
    LET p == pay[taskId]
        to == IF action = "release" THEN releasePayee(p) ELSE refundPayee(p)
        marked == IF action = "release" THEN releaseMark(p) ELSE refundMark(p)
        t == transfer(bal, ESCROW, to, p.amount)
    IN  IF ~onlyOrchestrator(sender)
        THEN [err |-> "Only Orchestrator can trigger", payments |-> pay, balanceOf |-> bal]
        ELSE IF AlreadySettled(p)
        THEN [err |-> "Payment already settled", payments |-> pay, balanceOf |-> bal]
        ELSE IF t.err # ""
        THEN [err |-> t.err, payments |-> pay, balanceOf |-> bal]
        ELSE [err |-> "", payments |-> [pay EXCEPT ![taskId] = marked],
              balanceOf |-> t.balanceOf]

NoCall == [op |-> "none", sender |-> ZERO, taskId |-> "task-a", err |-> ""]

lockPayment(sender, taskId, seller, amount) ==
    LET r == lockPaymentResult(payments, balanceOf, allowance,
                               sender, taskId, seller, amount)
    IN  /\ payments' = r.payments
        /\ balanceOf' = r.balanceOf
        /\ allowance' = r.allowance
        /\ lastCall' = [op |-> "lockPayment", sender |-> sender, taskId |-> taskId,
                        err |-> r.err]
        /\ nested' = NoCall

releasePayment(sender, taskId) ==
    LET r == settleResult(payments, balanceOf, sender, taskId, "release")
    IN  /\ payments' = r.payments
        /\ balanceOf' = r.balanceOf
        /\ allowance' = allowance
        /\ lastCall' = [op |-> "releasePayment", sender |-> sender, taskId |-> taskId,
                        err |-> r.err]
        /\ nested' = NoCall

refundPayment(sender, taskId) ==
    LET r == settleResult(payments, balanceOf, sender, taskId, "refund")
    IN  /\ payments' = r.payments
        /\ balanceOf' = r.balanceOf
        /\ allowance' = allowance
        /\ lastCall' = [op |-> "refundPayment", sender |-> sender, taskId |-> taskId,
                        err |-> r.err]
        /\ nested' = NoCall


\* constructor + the tests' setUp: funded accounts, each approving the escrow
InitEscrow ==
    /\ payments = [t \in TaskIds |-> NoPayment]
    /\ balanceOf = [a \in Address |-> IF a \in Funded THEN InitialFunds ELSE 0]
    /\ allowance = [a \in Address |-> IF a \in Funded THEN InitialAllowance ELSE 0]
    /\ lastCall = NoCall
    /\ nested = NoCall

paymentsDuringTransferMutUnmarked(pay, taskId, marked) == pay

\* payments while usdcToken.transfer runs: the flag is set before the call
\* (p.isReleased = true; then usdcToken.transfer(...))
paymentsDuringTransfer(pay, taskId, marked) == [pay EXCEPT ![taskId] = marked]

\* releasePayment / refundPayment with a token that hands control to another
\* contract during transfer (a send or receive hook), which calls
\* releasePayment or refundPayment again before transfer returns. early: the
\* hook runs before the balances move. The hook catches a revert of its
\* call; a transfer that fails in the end reverts the whole transaction,
\* the hook's call included.
reentrantSettle(sender, taskId, action, early, cbSender, cbTaskId, cbAction) ==
    LET p == payments[taskId]
        to == IF action = "release" THEN releasePayee(p) ELSE refundPayee(p)
        marked == IF action = "release" THEN releaseMark(p) ELSE refundMark(p)
        during == paymentsDuringTransfer(payments, taskId, marked)
        moved == transfer(balanceOf, ESCROW, to, p.amount)
        inner == settleResult(during,
                              IF early \/ moved.err # "" THEN balanceOf
                              ELSE moved.balanceOf,
                              cbSender, cbTaskId, cbAction)
        final == IF early THEN transfer(inner.balanceOf, ESCROW, to, p.amount)
                 ELSE [err |-> moved.err, balanceOf |-> inner.balanceOf]
        outerErr == IF ~onlyOrchestrator(sender) THEN "Only Orchestrator can trigger"
                    ELSE IF AlreadySettled(p) THEN "Payment already settled"
                    ELSE final.err
        entered == onlyOrchestrator(sender) /\ ~AlreadySettled(p)
                   /\ (early \/ moved.err = "")
    IN  /\ payments' = IF outerErr = ""
                       THEN [inner.payments EXCEPT ![taskId] =
                                IF action = "release" THEN releaseMark(@)
                                ELSE refundMark(@)]
                       ELSE payments
        /\ balanceOf' = IF outerErr = "" THEN final.balanceOf ELSE balanceOf
        /\ allowance' = allowance
        /\ lastCall' = [op |-> action \o "Payment", sender |-> sender,
                        taskId |-> taskId, err |-> outerErr]
        /\ nested' = IF ~entered THEN NoCall
                     ELSE [op |-> cbAction \o "Payment", sender |-> cbSender,
                           taskId |-> cbTaskId,
                           err |-> IF inner.err # "" THEN inner.err
                                   ELSE IF outerErr # "" THEN "reverted with the caller"
                                   ELSE ""]

Reenter ==
    /\ \E t \in TaskIds, action \in {"release", "refund"}, early \in BOOLEAN,
          cbSender \in {orchestrator, "seller"}, cbTaskId \in TaskIds,
          cbAction \in {"release", "refund"} :
            reentrantSettle(orchestrator, t, action, early, cbSender, cbTaskId, cbAction)
    /\ UNCHANGED notEscrowVars

\* The same three functions with a token that reports a failed transfer by
\* returning false (IERC20: returns (bool)) where MockUSDC reverts. The
\* escrow does not read the value returned by transferFrom / transfer.
lockPaymentSoft(sender, taskId, seller, amount) ==
    LET t == transferFrom(balanceOf, allowance, sender, ESCROW, amount)
        exists == TaskExists(payments[taskId])
    IN  /\ payments' = IF exists THEN payments
                       ELSE [payments EXCEPT ![taskId] =
                               [buyer |-> sender, seller |-> seller, amount |-> amount,
                                isReleased |-> FALSE, isRefunded |-> FALSE]]
        /\ balanceOf' = IF exists \/ t.err # "" THEN balanceOf ELSE t.balanceOf
        /\ allowance' = IF exists \/ t.err # "" THEN allowance ELSE t.allowance
        /\ lastCall' = [op |-> "lockPayment", sender |-> sender, taskId |-> taskId,
                        err |-> IF exists THEN "Task already exists" ELSE ""]
        /\ nested' = NoCall

settlePaymentSoft(sender, taskId, action) ==
    LET p == payments[taskId]
        to == IF action = "release" THEN releasePayee(p) ELSE refundPayee(p)
        marked == IF action = "release" THEN releaseMark(p) ELSE refundMark(p)
        t == transfer(balanceOf, ESCROW, to, p.amount)
        err == IF ~onlyOrchestrator(sender) THEN "Only Orchestrator can trigger"
               ELSE IF AlreadySettled(p) THEN "Payment already settled"
               ELSE ""
    IN  /\ payments' = IF err = "" THEN [payments EXCEPT ![taskId] = marked]
                       ELSE payments
        /\ balanceOf' = IF err = "" /\ t.err = "" THEN t.balanceOf ELSE balanceOf
        /\ allowance' = allowance
        /\ lastCall' = [op |-> action \o "Payment", sender |-> sender,
                        taskId |-> taskId, err |-> err]
        /\ nested' = NoCall

LockSoft ==
    /\ \E s \in Lockers, t \in TaskIds, a \in Amounts :
            lockPaymentSoft(s, t, "seller", a)
    /\ UNCHANGED notEscrowVars
ReleaseSoft ==
    /\ \E s \in {orchestrator, "seller"}, t \in TaskIds :
            settlePaymentSoft(s, t, "release")
    /\ UNCHANGED notEscrowVars
RefundSoft ==
    /\ \E s \in {orchestrator, "buyer"}, t \in TaskIds :
            settlePaymentSoft(s, t, "refund")
    /\ UNCHANGED notEscrowVars

Lock ==
    /\ \E s \in Lockers, t \in TaskIds, sl \in Sellers, a \in Amounts :
            lockPayment(s, t, sl, a)
    /\ UNCHANGED notEscrowVars
Release ==
    /\ \E s \in EOA, t \in TaskIds : releasePayment(s, t)
    /\ UNCHANGED notEscrowVars
Refund ==
    /\ \E s \in EOA, t \in TaskIds : refundPayment(s, t)
    /\ UNCHANGED notEscrowVars


-----------------------------------------------------------------------------
(* Strings are sequences of one-character strings, so that trim() and       *)
(* toLowerCase() are computed and not assumed.                              *)

Str_Ab == <<"A", "b">>                 \* "Ab"
Str_ab == <<" ", "a", "b">>            \* " ab": equal to "Ab" once normalised
Str_10 == <<"1", "0">>                 \* "10"
Str_2 == <<"2">>                       \* "2"
FAILED == <<"_", "_", "F", "A", "I", "L", "E", "D", "_", "_">>   \* '__FAILED__'
NULL == <<"\\null">>                   \* consensusResult: null
Payloads == {Str_Ab, Str_ab, Str_10, Str_2}

Upper == <<"A", "B", "D", "E", "F", "I", "L">>
LowerOf == <<"a", "b", "d", "e", "f", "i", "l">>
Digits == <<"0", "1", "2", "3", "4", "5", "6", "7", "8", "9">>

Range(f) == {f[i] : i \in DOMAIN f}
IndexIn(seq, c) == CHOOSE i \in DOMAIN seq : seq[i] = c

\* String.prototype.toLowerCase
toLowerCase(str) ==
    [i \in DOMAIN str |->
        IF str[i] \in Range(Upper) THEN LowerOf[IndexIn(Upper, str[i])] ELSE str[i]]

\* String.prototype.trim
RECURSIVE trim(_)
trim(str) ==
    IF str = <<>> THEN str
    ELSE IF Head(str) = " " THEN trim(Tail(str))
    ELSE IF str[Len(str)] = " " THEN trim(SubSeq(str, 1, Len(str) - 1))
    ELSE str

\* const key = r.result.trim().toLowerCase()
normalise(str) == toLowerCase(trim(str))

\* The value of a string of decimal digits.
RECURSIVE DigitsValue(_)
DigitsValue(str) ==
    IF str = <<>> THEN 0
    ELSE 10 * DigitsValue(SubSeq(str, 1, Len(str) - 1))
         + (IndexIn(Digits, str[Len(str)]) - 1)

\* ECMAScript: a property key that is a canonical array index (a canonical
\* decimal numeral below 2^32 - 1). Every numeral of up to nine digits is
\* below that limit; the payloads modelled here are shorter.
IsArrayIndex(key) ==
    /\ key # <<>>
    /\ Len(key) < 10
    /\ \A i \in DOMAIN key : key[i] \in Range(Digits)
    /\ (Len(key) > 1 => key[1] # "0")

\* The distinct elements of a sequence, in order of first occurrence.
RECURSIVE FirstSeen(_)
FirstSeen(seq) ==
    IF seq = <<>> THEN <<>>
    ELSE LET rest == FirstSeen(SubSeq(seq, 1, Len(seq) - 1))
             x == seq[Len(seq)]
         IN  IF x \in Range(rest) THEN rest ELSE Append(rest, x)

\* The array-index keys of a set, in ascending numeric order.
RECURSIVE AscendingIndexKeys(_)
AscendingIndexKeys(S) ==
    IF S = {} THEN <<>>
    ELSE LET m == CHOOSE x \in S : \A y \in S : DigitsValue(x) <= DigitsValue(y)
         IN  <<m>> \o AscendingIndexKeys(S \ {m})

IsNotIndexKey(k) == ~IsArrayIndex(k)

\* Object.entries(freq): array-index keys first, ascending; then the other
\* keys in insertion order.
entriesOrder(keys) ==
    AscendingIndexKeys({k \in Range(keys) : IsArrayIndex(k)})
        \o SelectSeq(keys, IsNotIndexKey)

-----------------------------------------------------------------------------
(* VerificationEngine.verify *)

slaViolationsOfMutInclusive(rs, s, taskStartedAt) ==
    LET IsLate(r) == r.timestamp - taskStartedAt >= s.maxResponseTimeMs
        late == SelectSeq(rs, IsLate)
    IN  [i \in DOMAIN late |-> late[i].agentAddress]

\* report.slaViolations: the agentAddress of every result with
\* timestamp - taskStartedAt > sla.maxResponseTimeMs, in input order
RECURSIVE slaViolationsOf(_, _, _)
slaViolationsOf(rs, s, taskStartedAt) ==
    IF rs = <<>> THEN <<>>
    ELSE LET r == Head(rs)
             rest == slaViolationsOf(Tail(rs), s, taskStartedAt)
         IN  IF r.timestamp - taskStartedAt > s.maxResponseTimeMs
             THEN <<r.agentAddress>> \o rest
             ELSE rest

validResultsOfMutAll(rs, violators) == rs

\* results.filter(r => !report.slaViolations.includes(r.agentAddress))
RECURSIVE validResultsOf(_, _)
validResultsOf(rs, violators) ==
    IF rs = <<>> THEN <<>>
    ELSE LET rest == validResultsOf(Tail(rs), violators)
         IN  IF Head(rs).agentAddress \in Range(violators)
             THEN rest
             ELSE <<Head(rs)>> \o rest

\* freq[key]: the rs of the group, in input order
RECURSIVE groupOf(_, _)
groupOf(valid, key) ==
    IF valid = <<>> THEN <<>>
    ELSE LET rest == groupOf(Tail(valid), key)
         IN  IF normalise(Head(valid).result) = key
             THEN <<Head(valid)>> \o rest
             ELSE rest

\* the loop over Object.entries(freq): a later entry wins only if strictly larger
RECURSIVE bestOf(_, _, _, _)
bestOf(valid, entries, bestKey, bestCount) ==
    IF entries = <<>> THEN [key |-> bestKey, count |-> bestCount]
    ELSE LET n == Len(groupOf(valid, Head(entries)))
         IN  IF n > bestCount
             THEN bestOf(valid, Tail(entries), Head(entries), n)
             ELSE bestOf(valid, Tail(entries), bestKey, bestCount)

\* consensusFraction >= sla.minConsensus, with count / total and the
\* threshold minConsensus.num / minConsensus.den compared exactly
meetsThreshold(count, total, minConsensus) ==
    count * minConsensus.den >= minConsensus.num * total

emptyReportMutPassed(taskId, rs) ==
    [taskId |-> taskId, consensusResult |-> NULL,
     confidenceScore |-> [num |-> 0, den |-> 1],
     agentsQueried |-> Len(rs), agentsAgreed |-> 0,
     slaViolations |-> <<>>, passed |-> TRUE]

\* the report as verify first builds it
emptyReport(taskId, rs) ==
    [taskId |-> taskId, consensusResult |-> NULL,
     confidenceScore |-> [num |-> 0, den |-> 1],
     agentsQueried |-> Len(rs), agentsAgreed |-> 0,
     slaViolations |-> <<>>, passed |-> FALSE]

verify(taskId, rs, s, taskStartedAt) ==
    LET violators == slaViolationsOf(rs, s, taskStartedAt)
        valid == validResultsOf(rs, violators)
        keys == FirstSeen([i \in DOMAIN valid |-> normalise(valid[i].result)])
        best == bestOf(valid, entriesOrder(keys), <<>>, 0)
    IN  IF rs = <<>> THEN emptyReport(taskId, rs)
        ELSE IF valid = <<>>
        THEN [emptyReport(taskId, rs) EXCEPT !.slaViolations = violators]
        ELSE [taskId |-> taskId,
              consensusResult |-> groupOf(valid, best.key)[1].result,
              confidenceScore |-> [num |-> best.count, den |-> Len(valid)],
              agentsQueried |-> Len(rs),
              agentsAgreed |-> best.count,
              slaViolations |-> violators,
              passed |-> meetsThreshold(best.count, Len(valid), s.minConsensus)]

-----------------------------------------------------------------------------
(* runMarketplaceWorkflow *)

QUORUM_SIZE == 3

DEFAULT_SLA ==
    [maxResponseTimeMs |-> 5000, minConsensus |-> [num |-> 67, den |-> 100]]

\* request.sla ?? DEFAULT_SLA
SLAs == {DEFAULT_SLA, [DEFAULT_SLA EXCEPT !.minConsensus = [num |-> 1, den |-> 2]]}

TaskStart == 1000                       \* taskStartedAt = Date.now()
WfTaskId == "task-a"                    \* request.taskId

\* findTopAgents: agents[i].address
AgentAddress(i) == <<"0xAgent1", "0xAgent2", "0xAgent3", "0xAgent4">>[i]

\* Date.now() - taskStartedAt at the moment a result is stamped: at the SLA
\* limit (on time) or just past it (late)
Elapsed == {sla.maxResponseTimeMs, sla.maxResponseTimeMs + 1}

\* rawResults[i] is fulfilled: r.value as the agent returned it
wfFulfilled ==
    /\ wfPc = "dispatch"
    /\ Len(agentResults) < QUORUM_SIZE
    /\ \E addr \in {AgentAddress(Len(agentResults) + 1), AgentAddress(1)},
          res \in Payloads, d \in Elapsed :
            agentResults' = Append(agentResults,
                [agentAddress |-> addr, result |-> res,
                 timestamp |-> TaskStart + d, signature |-> "0xmocksig"])
    /\ UNCHANGED <<sla, report, wfPc, wfSettled>>
    /\ UNCHANGED notVerifyVars

\* rawResults[i] is rejected: the workflow substitutes the failure sentinel
wfRejected ==
    /\ wfPc = "dispatch"
    /\ Len(agentResults) < QUORUM_SIZE
    /\ \E d \in Elapsed :
            agentResults' = Append(agentResults,
                [agentAddress |-> AgentAddress(Len(agentResults) + 1),
                 result |-> FAILED, timestamp |-> TaskStart + d, signature |-> ""])
    /\ UNCHANGED <<sla, report, wfPc, wfSettled>>
    /\ UNCHANGED notVerifyVars

\* agents.length === 0: the workflow returns before dispatch
wfNoAgents ==
    /\ wfPc = "dispatch"
    /\ agentResults = <<>>
    /\ wfPc' = "done"
    /\ UNCHANGED <<agentResults, sla, report, wfSettled>>
    /\ UNCHANGED notVerifyVars

\* const report = VerificationEngine.verify(request.taskId, agentResults, sla, taskStartedAt)
wfVerify ==
    /\ wfPc = "dispatch"
    /\ report' = verify(WfTaskId, agentResults, sla, TaskStart)
    /\ wfPc' = "verified"
    /\ UNCHANGED <<agentResults, sla, wfSettled>>
    /\ UNCHANGED notVerifyVars

\* if (report.passed) settleEscrow(taskId, "release") else settleEscrow(taskId, "refund")
settleAction(ok) == IF ok THEN "release" ELSE "refund"

wfSettle ==
    /\ wfPc = "verified"
    /\ agentResults # <<>>
    /\ wfSettled' = Append(wfSettled, settleAction(report.passed))
    /\ wfPc' = "done"
    /\ UNCHANGED <<agentResults, sla, report>>
    /\ UNCHANGED notVerifyVars

InitVerifyIdle ==
    /\ agentResults = <<>>
    /\ sla = DEFAULT_SLA
    /\ report = emptyReport(WfTaskId, <<>>)
    /\ wfPc = "dispatch"
    /\ wfSettled = <<>>

InitVerify ==
    /\ agentResults = <<>>
    /\ sla \in SLAs
    /\ report = emptyReport(WfTaskId, <<>>)
    /\ wfPc = "dispatch"
    /\ wfSettled = <<>>

-----------------------------------------------------------------------------
(* AgentRegistry *)

REGISTRY_OWNER == "owner"              \* msg.sender of the constructor
AgentAddrs == {"0xAgent1", "0xAgent2", "0xAgent3"}
RegistryCallers == EOA \cup {"dev"}
MetadataURIs == {"ipfs://v1", "ipfs://v2"}
UINT16_MAX == 65535

\* mapping default: an Agent slot that was never written
NoAgent ==
    [agentOwner |-> ZERO, metadataURI |-> "", metadataVersion |-> 0,
     isActive |-> FALSE, reputationScore |-> 0, totalTasks |-> 0,
     successfulTasks |-> 0, slaViolations |-> 0]

\* if (a.reputationScore < 990) a.reputationScore += 10
successScore(score) == IF score < 990 THEN score + 10 ELSE score

failureScoreMutLowGuard(score) == IF score > 20 THEN score - 50 ELSE 0

\* if (a.reputationScore > 50) a.reputationScore -= 50; else a.reputationScore = 0
failureScore(score) == IF score > 50 THEN score - 50 ELSE 0

slaScoreMutNoFloor(score) == IF score > 20 THEN score - 20 ELSE score

\* if (a.reputationScore > 20) a.reputationScore -= 20; else a.reputationScore = 0
slaScore(score) == IF score > 20 THEN score - 20 ELSE 0

deactivatesMutLate(slaViolations) == slaViolations > 5

\* if (a.slaViolations >= 5) a.isActive = false
deactivates(slaViolations) == slaViolations >= 5

outcomeOfMutCountsEverySuccess(a, wasSuccessful, slaViolation) ==
    LET s1 == IF wasSuccessful THEN successScore(a.reputationScore)
              ELSE failureScore(a.reputationScore)
        ok1 == s1 \in 0..UINT16_MAX
        s2 == IF slaViolation THEN slaScore(s1) ELSE s1
        ok2 == s2 \in 0..UINT16_MAX
        viol == IF slaViolation THEN a.slaViolations + 1 ELSE a.slaViolations
    IN  [panic |-> ~(ok1 /\ ok2),
         agent |-> [a EXCEPT
            !.totalTasks = @ + 1,
            !.successfulTasks = @ + 1,
            !.reputationScore = s2,
            !.slaViolations = viol,
            !.isActive = IF slaViolation /\ deactivates(viol) THEN FALSE ELSE @]]

\* The Agent record after recordOutcome's body; uint16 arithmetic is
\* checked, so a score outside 0..65535 is a Panic revert (field panic).
outcomeOf(a, wasSuccessful, slaViolation) ==
    LET s1 == IF wasSuccessful THEN successScore(a.reputationScore)
              ELSE failureScore(a.reputationScore)
        ok1 == s1 \in 0..UINT16_MAX
        s2 == IF slaViolation THEN slaScore(s1) ELSE s1
        ok2 == s2 \in 0..UINT16_MAX
        viol == IF slaViolation THEN a.slaViolations + 1 ELSE a.slaViolations
    IN  [panic |-> ~(ok1 /\ ok2),
         agent |-> [a EXCEPT
            !.totalTasks = @ + 1,
            !.successfulTasks = IF wasSuccessful THEN @ + 1 ELSE @,
            !.reputationScore = s2,
            !.slaViolations = viol,
            !.isActive = IF slaViolation /\ deactivates(viol) THEN FALSE ELSE @]]

setOrchestratorMutAnyone(sender, orch, granted) ==
    /\ regCall' = [op |-> "setOrchestrator", sender |-> sender,
                    agent |-> orch, err |-> ""]
    /\ orchestrators' = [orchestrators EXCEPT ![orch] = granted]
    /\ UNCHANGED <<agents, agentList>>

setOrchestrator(sender, orch, granted) ==
    /\ IF sender # REGISTRY_OWNER
       THEN /\ regCall' = [op |-> "setOrchestrator", sender |-> sender,
                           agent |-> orch, err |-> "NotOwner"]
            /\ UNCHANGED orchestrators
       ELSE /\ regCall' = [op |-> "setOrchestrator", sender |-> sender,
                           agent |-> orch, err |-> ""]
            /\ orchestrators' = [orchestrators EXCEPT ![orch] = granted]
    /\ UNCHANGED <<agents, agentList>>

registerAgentMutOverwrite(sender, agent, metadataURI) ==
    /\ regCall' = [op |-> "registerAgent", sender |-> sender,
                    agent |-> agent, err |-> ""]
    /\ agents' = [agents EXCEPT ![agent] =
            [agentOwner |-> sender, metadataURI |-> metadataURI,
             metadataVersion |-> 1, isActive |-> TRUE,
             reputationScore |-> 500, totalTasks |-> 0,
             successfulTasks |-> 0, slaViolations |-> 0]]
    /\ agentList' = Append(agentList, agent)
    /\ UNCHANGED orchestrators

registerAgent(sender, agent, metadataURI) ==
    /\ IF agents[agent].agentOwner # ZERO
       THEN /\ regCall' = [op |-> "registerAgent", sender |-> sender,
                           agent |-> agent, err |-> "AgentAlreadyRegistered"]
            /\ UNCHANGED <<agents, agentList>>
       ELSE /\ regCall' = [op |-> "registerAgent", sender |-> sender,
                           agent |-> agent, err |-> ""]
            /\ agents' = [agents EXCEPT ![agent] =
                    [agentOwner |-> sender, metadataURI |-> metadataURI,
                     metadataVersion |-> 1, isActive |-> TRUE,
                     reputationScore |-> 500, totalTasks |-> 0,
                     successfulTasks |-> 0, slaViolations |-> 0]]
            /\ agentList' = Append(agentList, agent)
    /\ UNCHANGED orchestrators

updateMetadataMutAnyCaller(sender, agent, metadataURI, isActive) ==
    /\ regCall' = [op |-> "updateMetadata", sender |-> sender,
                    agent |-> agent, err |-> ""]
    /\ agents' = [agents EXCEPT ![agent] =
            [@ EXCEPT !.metadataURI = metadataURI,
                      !.metadataVersion = @ + 1,
                      !.isActive = isActive]]
    /\ UNCHANGED <<agentList, orchestrators>>

updateMetadata(sender, agent, metadataURI, isActive) ==
    /\ IF agents[agent].agentOwner # sender
       THEN /\ regCall' = [op |-> "updateMetadata", sender |-> sender,
                           agent |-> agent, err |-> "NotAgentOwner"]
            /\ UNCHANGED agents
       ELSE IF agents[agent].metadataVersion + 1 > UINT16_MAX
       THEN /\ regCall' = [op |-> "updateMetadata", sender |-> sender,
                           agent |-> agent, err |-> "Panic(0x11)"]
            /\ UNCHANGED agents
       ELSE /\ regCall' = [op |-> "updateMetadata", sender |-> sender,
                           agent |-> agent, err |-> ""]
            /\ agents' = [agents EXCEPT ![agent] =
                    [@ EXCEPT !.metadataURI = metadataURI,
                              !.metadataVersion = @ + 1,
                              !.isActive = isActive]]
    /\ UNCHANGED <<agentList, orchestrators>>

recordOutcomeResultMutNoRegCheck(ags, orchs, sender, agent, wasSuccessful, slaViolation) ==
    LET o == outcomeOf(ags[agent], wasSuccessful, slaViolation)
    IN  IF ~orchs[sender]
        THEN [err |-> "NotOrchestrator", agents |-> ags]
        ELSE IF o.panic
        THEN [err |-> "Panic(0x11)", agents |-> ags]
        ELSE [err |-> "", agents |-> [ags EXCEPT ![agent] = o.agent]]

\* What recordOutcome does to agents: err # "" is a revert.
recordOutcomeResult(ags, orchs, sender, agent, wasSuccessful, slaViolation) ==
    LET o == outcomeOf(ags[agent], wasSuccessful, slaViolation)
    IN  IF ~orchs[sender]
        THEN [err |-> "NotOrchestrator", agents |-> ags]
        ELSE IF ags[agent].agentOwner = ZERO
        THEN [err |-> "AgentNotRegistered", agents |-> ags]
        ELSE IF o.panic
        THEN [err |-> "Panic(0x11)", agents |-> ags]
        ELSE [err |-> "", agents |-> [ags EXCEPT ![agent] = o.agent]]

recordOutcome(sender, agent, wasSuccessful, slaViolation) ==
    LET r == recordOutcomeResult(agents, orchestrators, sender, agent,
                                 wasSuccessful, slaViolation)
    IN  /\ agents' = r.agents
        /\ regCall' = [op |-> "recordOutcome", sender |-> sender,
                       agent |-> agent, err |-> r.err]
        /\ UNCHANGED <<agentList, orchestrators>>

NoRegCall == [op |-> "none", sender |-> ZERO, agent |-> ZERO, err |-> ""]

\* constructor
InitRegistry ==
    /\ agents = [a \in AgentAddrs |-> NoAgent]
    /\ agentList = <<>>
    /\ orchestrators = [a \in RegistryCallers |-> FALSE]
    /\ regCall = NoRegCall

(* SpecScore: the state the registry tests start from (setUp grants the     *)
(* orchestrator role, then the agent is registered), and the outcome        *)
(* history the orchestrator reports for that agent.                         *)

ScoreAgent == "0xAgent1"

InitScoreRegistry ==
    /\ agents = [a \in AgentAddrs |->
            IF a = ScoreAgent
            THEN [agentOwner |-> "dev", metadataURI |-> "ipfs://v1",
                  metadataVersion |-> 1, isActive |-> TRUE,
                  reputationScore |-> 500, totalTasks |-> 0,
                  successfulTasks |-> 0, slaViolations |-> 0]
            ELSE NoAgent]
    /\ agentList = <<ScoreAgent>>
    /\ orchestrators = [a \in RegistryCallers |-> a = "orch"]
    /\ regCall = [op |-> "registerAgent", sender |-> "dev",
                  agent |-> ScoreAgent, err |-> ""]

scRecordOutcome ==
    /\ agents[ScoreAgent].totalTasks < MaxScoreTasks
    /\ \E wasSuccessful \in BOOLEAN, slaViolation \in BOOLEAN :
            recordOutcome("orch", ScoreAgent, wasSuccessful, slaViolation)
    /\ UNCHANGED notRegistryVars

(* SpecRegistry: the four external functions of the registry, each called  *)
(* by the contract owner and by the orchestrator's address, from the state *)
(* the constructor leaves.                                                 *)

RegSenders == {REGISTRY_OWNER, "orch"}
RegGrantees == {"orch"}
RegAgents == {"0xAgent1", "0xAgent2"}

RECURSIVE TotalTasks(_)
TotalTasks(S) ==
    IF S = {} THEN 0
    ELSE LET a == CHOOSE x \in S : TRUE
         IN  agents[a].totalTasks + TotalTasks(S \ {a})

regSetOrchestrator ==
    /\ \E sender \in RegSenders, orch \in RegGrantees, granted \in BOOLEAN :
            setOrchestrator(sender, orch, granted)
    /\ UNCHANGED notRegistryVars

regRegisterAgent ==
    /\ \E sender \in RegSenders, agent \in RegAgents, uri \in MetadataURIs :
            registerAgent(sender, agent, uri)
    /\ UNCHANGED notRegistryVars

regUpdateMetadata ==
    /\ \E sender \in RegSenders, agent \in RegAgents, uri \in MetadataURIs,
          isActive \in BOOLEAN :
            /\ agents[agent].metadataVersion <= MaxVersion
            /\ updateMetadata(sender, agent, uri, isActive)
    /\ UNCHANGED notRegistryVars

regRecordOutcome ==
    /\ \E sender \in RegSenders, agent \in RegAgents,
          wasSuccessful \in BOOLEAN, slaViolation \in BOOLEAN :
            /\ recordOutcomeResult(agents, orchestrators, sender, agent,
                                   wasSuccessful, slaViolation).err = ""
                  => TotalTasks(RegAgents) < MaxRegTasks
            /\ recordOutcome(sender, agent, wasSuccessful, slaViolation)
    /\ UNCHANGED notRegistryVars

(* SpecDeactivation: one registered agent (as in SpecScore), the outcomes   *)
(* the orchestrator records for it and the metadata updates its developer  *)
(* and others attempt.                                                     *)

LifeSenders == {"dev", "orch"}

dvRecordOutcome ==
    /\ agents[ScoreAgent].totalTasks < MaxLifeTasks
    /\ \E wasSuccessful \in BOOLEAN, slaViolation \in BOOLEAN :
            recordOutcome("orch", ScoreAgent, wasSuccessful, slaViolation)
    /\ UNCHANGED notRegistryVars

dvUpdateMetadata ==
    /\ \E sender \in LifeSenders, uri \in MetadataURIs, isActive \in BOOLEAN :
            /\ agents[ScoreAgent].metadataVersion <= MaxVersion
            /\ updateMetadata(sender, ScoreAgent, uri, isActive)
    /\ UNCHANGED notRegistryVars

-----------------------------------------------------------------------------
(* CRE orchestrator: fetchAgentResult, verifyResults, settleEscrow,         *)
(* updateReputation, fetchAgentsFromRegistry, onCronTrigger                 *)

SLA_THRESHOLD_MS == 5000
KEY_BYTES == 32                         \* new Uint8Array(32)
DefaultOutcome == <<"T", "e", "a", "m">>  \* 'Outcome: Team A won 2-1'
\* config.taskId: like the README's example ("Provide the full-time score
\* for Brazil vs Germany, World Cup Final 2026") it is longer than 32 bytes
TaskIdPrefix == [i \in 1..KEY_BYTES |-> "p"]
CronTaskId == TaskIdPrefix \o <<"B">>
\* two other task ids: same first 32 characters; a short one
OtherTaskId == TaskIdPrefix \o <<"F">>
ShortTaskId == <<"t", "e", "s", "t">>
CronAmount == 1                         \* the amount the buyer locks for it

Endpoint(i) == <<"http://ep1", "http://ep2", "http://ep3", "http://ep4">>[i]
AgentOfEndpoint(e) ==
    AgentAddress(CHOOSE i \in 1..4 : Endpoint(i) = e)

\* bytes32.set(bytes.subarray(0, Math.min(bytes.length, 32))): the first 32
\* bytes of the id, zero-padded on the right
taskIdPadded(taskId) ==
    [i \in 1..KEY_BYTES |-> IF i <= Len(taskId) THEN taskId[i] ELSE "\\0"]

\* the payments slot a bytes32 key addresses ("task-a" names the key of
\* CronTaskId, "task-b" any other key)
slotOf(key) == IF key = taskIdPadded(CronTaskId) THEN "task-a" ELSE "task-b"

\* A signature made with the key of signer over msg; a malformed one; a
\* missing one (undefined, or ''); the literal '0xmocksig'.
Sig(signer, msg) == [form |-> "signed", signer |-> signer, msg |-> msg]
BadSig == [form |-> "malformed", signer |-> "", msg |-> <<>>]
NoSig == [form |-> "missing", signer |-> "", msg |-> <<>>]
MockSig == [form |-> "0xmocksig", signer |-> "", msg |-> <<>>]

\* viem verifyMessage: "throws" for a malformed or missing signature or
\* address, else whether the signature is signer's over message
verifyMessage(address, message, signature) ==
    IF signature.form # "signed" \/ address = ""
    THEN "throws"
    ELSE IF signature.signer = address /\ signature.msg = message
    THEN "true" ELSE "false"

isVerifiedMutTrustsAll(resp) == TRUE

\* isVerified after the inner try/catch
isVerified(resp) ==
    verifyMessage(resp.agentAddress, resp.result, resp.signature) = "true"

fetchFailedMutDefault(endpoint, responseTime) ==
    [agentAddress |-> endpoint, result |-> DefaultOutcome, signature |-> NoSig,
     responseTime |-> responseTime]

\* fetchAgentResult when the request fails, the status is not 200 or the
\* body does not parse: the outer catch
fetchFailed(endpoint, responseTime) ==
    [agentAddress |-> endpoint, result |-> FAILED, signature |-> NoSig,
     responseTime |-> responseTime]

\* fetchAgentResult for a parsed body resp = {agentAddress, result, signature}
fetchParsed(endpoint, resp, responseTime) ==
    [agentAddress |-> IF resp.agentAddress # "" THEN resp.agentAddress ELSE endpoint,
     result |-> IF isVerified(resp)
                THEN (IF resp.result # <<>> THEN resp.result ELSE DefaultOutcome)
                ELSE FAILED,
     signature |-> IF resp.signature # NoSig THEN resp.signature ELSE MockSig,
     responseTime |-> responseTime]

CronPayloads == {Str_Ab, Str_ab, Str_2}

\* The bodies the agent behind endpoint e can answer with: honest, empty
\* result, a malformed signature, a missing signature, another agent's
\* address, a signature over another message, no agentAddress.
Responses(e) ==
    LET own == AgentOfEndpoint(e)
        other == IF own = "0xAgent1" THEN "0xAgent2" ELSE "0xAgent1"
    IN  {[agentAddress |-> own, result |-> p, signature |-> Sig(own, p)] :
             p \in CronPayloads \cup {<<>>}}
        \cup {[agentAddress |-> own, result |-> Str_Ab, signature |-> BadSig],
              [agentAddress |-> own, result |-> Str_Ab, signature |-> NoSig],
              [agentAddress |-> other, result |-> Str_Ab,
               signature |-> Sig(own, Str_Ab)],
              [agentAddress |-> own, result |-> Str_Ab, signature |-> Sig(own, Str_2)],
              [agentAddress |-> "", result |-> Str_Ab, signature |-> Sig(own, Str_Ab)]}

ResponseTimes == {SLA_THRESHOLD_MS, SLA_THRESHOLD_MS + 1}

\* counts[r.result] after the first n results of valid
RECURSIVE countOf(_, _, _)
countOf(valid, n, res) ==
    IF n = 0 THEN 0
    ELSE countOf(valid, n - 1, res) + (IF valid[n].result = res THEN 1 ELSE 0)

IsNotFailed(r) == r.result # FAILED

\* const counts: Record<string, number> = {}: an object literal inherits
\* the properties of Object.prototype ('constructor', 'toString', ...). For
\* such a key counts[key] || 0 is the inherited value, + 1 makes a string
\* of it, and string >= 2 compares NaN: false, however often it is seen.
Str_constructor == <<"c", "o", "n", "s", "t", "r", "u", "c", "t", "o", "r">>
ObjectPrototypeKeys == {Str_constructor}
countsAsNumber(res) == res \notin ObjectPrototypeKeys

\* the loop of verifyResults: true as soon as some count reaches 2
consensusReached(valid) ==
    \E n \in DOMAIN valid :
        /\ countsAsNumber(valid[n].result)
        /\ countOf(valid, n, valid[n].result) >= 2

verifyResults(rs) ==
    LET valid == SelectSeq(rs, IsNotFailed)
    IN  IF Len(valid) < 2 THEN FALSE ELSE consensusReached(valid)

\* fetchAgentsFromRegistry: the metadataURI of every active agent, in
\* agentList order
RECURSIVE activeEndpoints(_)
activeEndpoints(list) ==
    IF list = <<>> THEN <<>>
    ELSE (IF agents[Head(list)].isActive
          THEN <<agents[Head(list)].metadataURI>> ELSE <<>>)
         \o activeEndpoints(Tail(list))

\* the cron trigger fires: endpoints from the config, else from the
\* registry (an empty list when discovery throws); none: return "Aborting"
cronTrigger ==
    /\ cronPc = "idle"
    /\ \E discovered \in {activeEndpoints(agentList), <<>>} :
          endpoints' = IF config.agentEndpoints # <<>>
                       THEN config.agentEndpoints ELSE discovered
    /\ cronPc' = IF endpoints' = <<>> THEN "aborted" ELSE "fetch"
    /\ results' = <<>>
    /\ passed' = FALSE
    /\ settleCalls' = <<>>
    /\ repCalls' = <<>>
    /\ repIdx' = 1
    /\ UNCHANGED <<config, escrowVars, verifyVars, registryVars>>

\* results.push(await fetchAgentResult(runtime, endpoint, config.taskId))
cronFetch ==
    /\ cronPc = "fetch"
    /\ Len(results) < Len(endpoints)
    /\ LET e == endpoints[Len(results) + 1]
       IN  \E rt \in ResponseTimes :
              \/ results' = Append(results, fetchFailed(e, rt))
              \/ \E resp \in Responses(e) :
                    results' = Append(results, fetchParsed(e, resp, rt))
    /\ cronPc' = IF Len(results') = Len(endpoints) THEN "settle" ELSE "fetch"
    /\ UNCHANGED <<config, endpoints, passed, settleCalls, repCalls, repIdx>>
    /\ UNCHANGED <<escrowVars, verifyVars, registryVars>>

settleThrowsMutNever(err) == FALSE

\* settleEscrow: if (resp.txStatus !== TxStatus.SUCCESS) throw; err is the
\* revert reason of the escrow call, "" when it did not revert
settleThrows(err) == err # ""

cronActionMutSwapped(ok) == IF ok THEN "refund" ELSE "release"

\* if (passed) settleEscrow(.., 'release') else settleEscrow(.., 'refund')
cronAction(ok) == IF ok THEN "release" ELSE "refund"

\* passed = verifyResults(results), then settleEscrow: the call is issued;
\* a transaction that is not SUCCESS (the escrow reverts, or the write
\* fails) makes settleEscrow throw, which ends the cycle
cronSettle ==
    /\ cronPc = "settle"
    /\ passed' = verifyResults(results)
    /\ LET action == cronAction(passed')
           key == taskIdPadded(config.taskId)
           r == settleResult(payments, balanceOf, orchestrator, slotOf(key), action)
       IN  /\ settleCalls' = Append(settleCalls, [action |-> action, taskId |-> key])
           /\ \/ /\ payments' = r.payments
                 /\ balanceOf' = r.balanceOf
                 /\ lastCall' = [op |-> action \o "Payment", sender |-> orchestrator,
                                 taskId |-> slotOf(key), err |-> r.err]
                 /\ cronPc' = IF settleThrows(r.err) THEN "error" ELSE "reputation"
              \/ /\ cronPc' = "error"
                 /\ UNCHANGED <<payments, balanceOf, lastCall>>
    /\ UNCHANGED <<allowance, nested, config, endpoints, results, repCalls, repIdx>>
    /\ UNCHANGED <<verifyVars, registryVars>>

\* const wasSuccessful = passed && res.result !== '__FAILED__'
wasSuccessfulOf(ok, res) == ok /\ res.result # FAILED

\* one round of the reputation loop: results that failed are skipped; a
\* recordOutcome that reverts is caught and logged
cronReputation ==
    /\ cronPc = "reputation"
    /\ repIdx <= Len(results)
    /\ LET res == results[repIdx]
           ok == wasSuccessfulOf(passed, res)
           slaViolation == res.responseTime > SLA_THRESHOLD_MS
       IN  IF res.agentAddress # "" /\ res.result # FAILED
           THEN /\ repCalls' = Append(repCalls,
                        [agent |-> res.agentAddress, wasSuccessful |-> ok,
                         slaViolation |-> slaViolation])
                /\ recordOutcome("orch", res.agentAddress, ok, slaViolation)
           ELSE UNCHANGED <<repCalls, registryVars>>
    /\ repIdx' = repIdx + 1
    /\ UNCHANGED <<config, cronPc, endpoints, results, passed, settleCalls>>
    /\ UNCHANGED <<escrowVars, verifyVars>>

\* return `Task ... processed. Result: ...`
cronReturn ==
    /\ cronPc = "reputation"
    /\ repIdx > Len(results)
    /\ cronPc' = "done"
    /\ UNCHANGED <<config, endpoints, results, passed, settleCalls, repCalls,
                   repIdx>>
    /\ UNCHANGED <<escrowVars, verifyVars, registryVars>>

\* The escrow states a cycle can find for its task: never locked, locked by
\* the buyer (README, Phase 1), already released, already refunded.
EscrowConstructed ==
    [payments |-> [t \in TaskIds |-> NoPayment],
     balanceOf |-> [a \in Address |-> IF a \in Funded THEN InitialFunds ELSE 0],
     allowance |-> [a \in Address |-> IF a \in Funded THEN InitialAllowance ELSE 0]]

EscrowLocked ==
    lockPaymentResult(EscrowConstructed.payments, EscrowConstructed.balanceOf,
                      EscrowConstructed.allowance, "buyer",
                      slotOf(taskIdPadded(CronTaskId)), "seller", CronAmount)

EscrowSettled(action) ==
    LET r == settleResult(EscrowLocked.payments, EscrowLocked.balanceOf,
                          orchestrator, slotOf(taskIdPadded(CronTaskId)), action)
    IN  [payments |-> r.payments, balanceOf |-> r.balanceOf,
         allowance |-> EscrowLocked.allowance]

InitCronEscrow ==
    /\ \E e \in {EscrowConstructed, EscrowLocked,
                 EscrowSettled("release"), EscrowSettled("refund")} :
          /\ payments = e.payments
          /\ balanceOf = e.balanceOf
          /\ allowance = e.allowance
    /\ lastCall = NoCall
    /\ nested = NoCall

\* the registry after the README's Phase 0: agents 1 and 2 registered by
\* their developer with their endpoint as metadata URI, the orchestrator
\* role granted
InitCronRegistry ==
    /\ agents = [a \in AgentAddrs |->
            IF a \in {"0xAgent1", "0xAgent2"}
            THEN [agentOwner |-> "dev",
                  metadataURI |-> IF a = "0xAgent1" THEN Endpoint(1) ELSE Endpoint(2),
                  metadataVersion |-> 1, isActive |-> TRUE,
                  reputationScore |-> 500, totalTasks |-> 0,
                  successfulTasks |-> 0, slaViolations |-> 0]
            ELSE NoAgent]
    /\ agentList = <<"0xAgent1", "0xAgent2">>
    /\ orchestrators = [a \in RegistryCallers |-> a = "orch"]
    /\ regCall = NoRegCall

InitCronIdle ==
    /\ config = [agentEndpoints |-> <<>>, taskId |-> CronTaskId]
    /\ cronPc = "idle"
    /\ endpoints = <<>>
    /\ results = <<>>
    /\ passed = FALSE
    /\ settleCalls = <<>>
    /\ repCalls = <<>>
    /\ repIdx = 1

InitCronCycle ==
    /\ config \in {[agentEndpoints |-> eps, taskId |-> CronTaskId] :
                     eps \in {<<>>, <<Endpoint(1), Endpoint(2), Endpoint(3)>>}}
    /\ cronPc = "idle"
    /\ endpoints = <<>>
    /\ results = <<>>
    /\ passed = FALSE
    /\ settleCalls = <<>>
    /\ repCalls = <<>>
    /\ repIdx = 1

(* SpecCounters: the orchestrator reports outcomes, cycle after cycle, for  *)
(* the agents of the README's Phase 0 and for an address that is not       *)
(* registered; repCalls holds the call it has just issued.                 *)

ctUpdateReputation ==
    /\ TotalTasks(AgentAddrs) < MaxReported
    /\ \E agent \in AgentAddrs, wasSuccessful \in BOOLEAN, slaViolation \in BOOLEAN :
          /\ repCalls' = <<[agent |-> agent, wasSuccessful |-> wasSuccessful,
                            slaViolation |-> slaViolation]>>
          /\ recordOutcome("orch", agent, wasSuccessful, slaViolation)
    /\ UNCHANGED <<config, cronPc, endpoints, results, passed, settleCalls, repIdx>>
    /\ UNCHANGED <<escrowVars, verifyVars>>

(* SpecConsensus: verifyResults on every list of three results over a      *)
(* small set of payloads, inside the cycle: the three agents have answered *)
(* (or failed to) and the cycle is about to verify and settle.             *)

ConsensusPayloads == {Str_Ab, Str_2, Str_constructor}

Collected(i) ==
    LET e == Endpoint(i)
        own == AgentOfEndpoint(e)
    IN  {fetchFailed(e, SLA_THRESHOLD_MS)}
        \cup {fetchParsed(e, [agentAddress |-> own, result |-> p,
                              signature |-> Sig(own, p)], SLA_THRESHOLD_MS) :
                 p \in ConsensusPayloads}

InitCollected ==
    /\ config = [agentEndpoints |-> <<Endpoint(1), Endpoint(2), Endpoint(3)>>,
                 taskId |-> CronTaskId]
    /\ cronPc = "settle"
    /\ endpoints = config.agentEndpoints
    /\ results \in {<<r1, r2, r3>> : r1 \in Collected(1), r2 \in Collected(2),
                                     r3 \in Collected(3)}
    /\ passed = FALSE
    /\ settleCalls = <<>>
    /\ repCalls = <<>>
    /\ repIdx = 1

(* SpecTaskKey: the buyer has locked the payment of CronTaskId; a cycle is  *)
(* configured for that task or for another one.                            *)

InitTaskKeyEscrow ==
    /\ payments = EscrowLocked.payments
    /\ balanceOf = EscrowLocked.balanceOf
    /\ allowance = EscrowLocked.allowance
    /\ lastCall = NoCall
    /\ nested = NoCall

InitTaskKeyCycle ==
    /\ config \in {[agentEndpoints |-> <<Endpoint(1), Endpoint(2), Endpoint(3)>>,
                     taskId |-> id] : id \in {CronTaskId, OtherTaskId, ShortTaskId}}
    /\ cronPc = "idle"
    /\ endpoints = <<>>
    /\ results = <<>>
    /\ passed = FALSE
    /\ settleCalls = <<>>
    /\ repCalls = <<>>
    /\ repIdx = 1

-----------------------------------------------------------------------------
(* Specifications *)

Init == InitEscrow /\ InitVerifyIdle /\ InitRegistry /\ InitCronIdle

Next == Lock \/ Release \/ Refund

Spec == Init /\ [][Next]_vars

NextSoftToken == LockSoft \/ ReleaseSoft \/ RefundSoft

SpecSoftToken == Init /\ [][NextSoftToken]_vars

NextReentrant == Lock \/ Release \/ Refund \/ Reenter

SpecReentrant == Init /\ [][NextReentrant]_vars

NextVerify == wfFulfilled \/ wfRejected \/ wfNoAgents \/ wfVerify \/ wfSettle

InitV == InitEscrow /\ InitVerify /\ InitRegistry /\ InitCronIdle

SpecVerify == InitV /\ [][NextVerify]_vars

InitScore == InitEscrow /\ InitVerifyIdle /\ InitScoreRegistry /\ InitCronIdle

NextScore == scRecordOutcome

SpecScore == InitScore /\ [][NextScore]_vars

InitReg == InitEscrow /\ InitVerifyIdle /\ InitRegistry /\ InitCronIdle

NextRegistry ==
    regSetOrchestrator \/ regRegisterAgent \/ regUpdateMetadata \/ regRecordOutcome

SpecRegistry == InitReg /\ [][NextRegistry]_vars

InitConsensus ==
    InitCronEscrow /\ InitVerifyIdle /\ InitCronRegistry /\ InitCollected

NextConsensus == cronSettle \/ cronReputation \/ cronReturn

SpecConsensus == InitConsensus /\ [][NextConsensus]_vars

InitCounters == InitEscrow /\ InitVerifyIdle /\ InitCronRegistry /\ InitCronIdle

NextCounters == ctUpdateReputation

SpecCounters == InitCounters /\ [][NextCounters]_vars

InitDeactivation ==
    InitEscrow /\ InitVerifyIdle /\ InitScoreRegistry /\ InitCronIdle

NextDeactivation == dvRecordOutcome \/ dvUpdateMetadata

SpecDeactivation == InitDeactivation /\ [][NextDeactivation]_vars

InitCron == InitCronEscrow /\ InitVerifyIdle /\ InitCronRegistry /\ InitCronCycle

NextCron ==
    cronTrigger \/ cronFetch \/ cronSettle \/ cronReputation \/ cronReturn

SpecCron == InitCron /\ [][NextCron]_vars

InitTaskKey ==
    InitTaskKeyEscrow /\ InitVerifyIdle /\ InitCronRegistry /\ InitTaskKeyCycle

SpecTaskKey == InitTaskKey /\ [][NextCron]_vars

-----------------------------------------------------------------------------
(* Claims about StablecoinEscrow, checked under Spec *)

Settled(t) == payments[t].isReleased \/ payments[t].isRefunded
SettleOps == {"releasePayment", "refundPayment"}
EscrowUnchanged ==
    /\ payments' = payments
    /\ balanceOf' = balanceOf
    /\ allowance' = allowance

\* Sum of the amounts of the tasks in S that are locked and not yet settled.
RECURSIVE SumUnsettled(_)
SumUnsettled(S) ==
    IF S = {} THEN 0
    ELSE LET t == CHOOSE x \in S : TRUE
         IN  (IF Settled(t) THEN 0 ELSE payments[t].amount) + SumUnsettled(S \ {t})

\* C1: a releasePayment or refundPayment call by the orchestrator on a task
\* whose isReleased or isRefunded flag is set is rejected with "Payment
\* already settled", moves no tokens and changes no escrow state (all four
\* orders release/refund -> release/refund).
C1_SettledCallRejected ==
    [][\A t \in TaskIds :
          (/\ Settled(t)
           /\ lastCall'.op \in SettleOps
           /\ lastCall'.taskId = t
           /\ lastCall'.sender = orchestrator)
          => (lastCall'.err = "Payment already settled" /\ EscrowUnchanged)]_vars

C1_Witness ==
    /\ lastCall.op = "releasePayment"
    /\ lastCall.sender = orchestrator
    /\ lastCall.err = "Payment already settled"
    /\ payments[lastCall.taskId].isRefunded
    /\ payments[lastCall.taskId].amount > 0

\* C2 (as claimed): once isReleased or isRefunded is true for a task, no later
\* lockPayment, releasePayment or refundPayment call changes the task's
\* stored payment record.
C2_TerminalRecordImmutable ==
    [][\A t \in TaskIds : Settled(t) => payments'[t] = payments[t]]_vars

\* C3: no task ever has isReleased and isRefunded both true.
C3_ReleasedRefundedExclusive ==
    \A t \in TaskIds : ~(payments[t].isReleased /\ payments[t].isRefunded)

C3_Witness ==
    /\ payments["task-a"].isReleased
    /\ payments["task-a"].amount > 0
    /\ payments["task-b"].isRefunded
    /\ payments["task-b"].amount > 0
    /\ lastCall.err = "Payment already settled"

\* C9 (as claimed): the escrow's token balance equals the sum of the amounts
\* of the locked, not yet settled tasks (so it is 0 once all are settled).
C9_BalanceEqualsUnsettled ==
    balanceOf[ESCROW] = SumUnsettled(TaskIds)

\* C10: a releasePayment or refundPayment call by any address other than the
\* orchestrator is rejected and leaves payments and all balances unchanged;
\* a call that succeeds was made by the orchestrator.
C10_OnlyOrchestratorSettles ==
    [][(lastCall'.op \in SettleOps /\ lastCall'.sender # orchestrator)
          => (lastCall'.err = "Only Orchestrator can trigger" /\ EscrowUnchanged)]_vars

C10_Witness ==
    /\ lastCall.op = "refundPayment"
    /\ lastCall.sender = owner
    /\ lastCall.err = "Only Orchestrator can trigger"
    /\ payments[lastCall.taskId].amount > 0
    /\ ~Settled(lastCall.taskId)

-----------------------------------------------------------------------------
(* Claims about VerificationEngine.verify and runMarketplaceWorkflow,       *)
(* checked under SpecVerify                                                 *)

Verified == wfPc \in {"verified", "done"}
OnTime(r) == r.timestamp - TaskStart <= sla.maxResponseTimeMs
SameAnswer(r1, r2) == toLowerCase(trim(r1.result)) = toLowerCase(trim(r2.result))
Sentinels == {i \in DOMAIN agentResults : agentResults[i].result = FAILED}

\* C4 (as claimed): with the default SLA (threshold 0.67), three on-time
\* results of which exactly two share a normalised payload give
\* passed = true, agentsAgreed = 2 and confidenceScore = 2/3.
C4_TwoOfThreePasses ==
    (/\ Verified
     /\ sla = DEFAULT_SLA
     /\ Len(agentResults) = 3
     /\ \A i \in 1..3 : OnTime(agentResults[i]) /\ agentResults[i].result # FAILED
     /\ \E i, j, k \in 1..3 :
            /\ i < j /\ k # i /\ k # j
            /\ SameAnswer(agentResults[i], agentResults[j])
            /\ ~SameAnswer(agentResults[i], agentResults[k]))
    => (/\ report.passed
        /\ report.agentsAgreed = 2
        /\ report.confidenceScore.num * 3 = report.confidenceScore.den * 2)

\* C5 (as claimed): passed = true only if at least two results that are on
\* time and are not the failure sentinel share a normalised payload.
C5_PassNeedsTwoAgreeing ==
    (Verified /\ report.passed)
    => \E i, j \in DOMAIN agentResults :
           /\ i < j
           /\ OnTime(agentResults[i]) /\ OnTime(agentResults[j])
           /\ agentResults[i].result # FAILED /\ agentResults[j].result # FAILED
           /\ SameAnswer(agentResults[i], agentResults[j])

\* C6 (as claimed): the failure sentinel never counts as a vote:
\* consensusResult is never the sentinel, and a task in which a majority of
\* the agents failed does not pass and is not released.
C6_SentinelNeverVotes ==
    Verified
    => /\ report.consensusResult # FAILED
       /\ (2 * Cardinality(Sentinels) > Len(agentResults)
              => (~report.passed /\ wfSettled # <<"release">>))

-----------------------------------------------------------------------------
(* Claims about AgentRegistry's reputation score, checked under SpecScore *)

\* C8: for every registered agent and every sequence of recordOutcome calls,
\* 0 <= reputationScore <= 1000, and no call reverts on the score's
\* arithmetic.
C8_ScoreInBounds ==
    /\ \A a \in AgentAddrs :
          agents[a].agentOwner # ZERO
              => (agents[a].reputationScore >= 0 /\ agents[a].reputationScore <= 1000)
    /\ regCall.err # "Panic(0x11)"

\* both ends are met: fifty successes leave the score at its ceiling
C8_Witness ==
    /\ agents[ScoreAgent].successfulTasks = 50
    /\ agents[ScoreAgent].totalTasks = 50
    /\ agents[ScoreAgent].reputationScore = 990
    /\ regCall.op = "recordOutcome"
    /\ regCall.err = ""

-----------------------------------------------------------------------------
(* Claims about the CRE orchestrator cycle, checked under SpecCron *)

\* C7: a cycle that has collected its results issues exactly one settlement
\* call, for the configured task: releasePayment if and only if
\* verification passed, refundPayment if and only if it did not; before the
\* settlement step it has issued none.
C7_ExactlyOneSettlement ==
    /\ cronPc \in {"idle", "fetch", "settle", "aborted"} => settleCalls = <<>>
    /\ cronPc \in {"reputation", "done", "error"} =>
          /\ Len(settleCalls) = 1
          /\ settleCalls[1].taskId = taskIdPadded(config.taskId)
          /\ (settleCalls[1].action = "release") <=> passed
          /\ (settleCalls[1].action = "refund") <=> ~passed

C7_Witness ==
    /\ cronPc = "done"
    /\ passed
    /\ Len(results) = 3
    /\ settleCalls = <<[action |-> "release", taskId |-> taskIdPadded(CronTaskId)]>>
    /\ payments["task-a"].isReleased
    /\ balanceOf["seller"] = CronAmount

-----------------------------------------------------------------------------
(* Further claims about StablecoinEscrow, checked under Spec *)

\* lockPayment stores msg.sender as the buyer, and msg.sender is never
\* address(0): a task id has been locked exactly when its buyer is set
EverLocked(t) == payments[t].buyer # ZERO

\* C12 (as claimed): a releasePayment or refundPayment call on a task id
\* that was never locked fails, whoever calls it, marks nothing as settled
\* and transfers nothing.
C12_UnknownTaskRejected ==
    [][\A t \in TaskIds :
          (/\ ~EverLocked(t)
           /\ lastCall'.op \in SettleOps
           /\ lastCall'.taskId = t)
          => (lastCall'.err # "" /\ EscrowUnchanged)]_vars

\* C13 (as claimed): a lockPayment call for a task id that has already been
\* locked (whatever its amount, settled or not) fails with "Task already
\* exists", takes no funds and leaves the stored record unchanged.
C13_RelockRejected ==
    [][\A t \in TaskIds :
          (/\ EverLocked(t)
           /\ lastCall'.op = "lockPayment"
           /\ lastCall'.taskId = t)
          => (lastCall'.err = "Task already exists" /\ EscrowUnchanged)]_vars

-----------------------------------------------------------------------------
(* Further claims about recordOutcome, checked under SpecScore *)

Max(a, b) == IF a >= b THEN a ELSE b
Min(a, b) == IF a <= b THEN a ELSE b

\* What a step that is a successful recordOutcome call was called with, read
\* from the counters it moves.
Recorded ==
    /\ regCall'.op = "recordOutcome"
    /\ regCall'.err = ""
    /\ agents'[ScoreAgent].totalTasks = agents[ScoreAgent].totalTasks + 1
WasSuccess ==
    agents'[ScoreAgent].successfulTasks = agents[ScoreAgent].successfulTasks + 1
WasViolation ==
    agents'[ScoreAgent].slaViolations = agents[ScoreAgent].slaViolations + 1
OldScore == agents[ScoreAgent].reputationScore
NewScore == agents'[ScoreAgent].reputationScore

\* C14: an agent whose SLA-violation count has reached 5 through
\* recordOutcome calls is inactive, and stays inactive under every further
\* recordOutcome call.
C14_FiveViolationsDeactivate ==
    agents[ScoreAgent].slaViolations >= 5 => ~agents[ScoreAgent].isActive

\* successes after the fifth violation did not reactivate the agent
C14_Witness ==
    /\ agents[ScoreAgent].slaViolations = 5
    /\ agents[ScoreAgent].successfulTasks >= 8
    /\ agents[ScoreAgent].totalTasks >= 13
    /\ ~agents[ScoreAgent].isActive

\* C16 (as claimed): a recordOutcome call with wasSuccessful = true and
\* slaViolation = false sets the score to min(old + 10, 1000).
C16_SuccessAddsTenUpTo1000 ==
    [][(Recorded /\ WasSuccess /\ ~WasViolation)
          => NewScore = Min(OldScore + 10, 1000)]_vars

\* C17: with wasSuccessful = false the score becomes max(old - 50, 0); with
\* slaViolation = true a further 20 is subtracted from the adjusted score,
\* floored at 0 on its own (500 -> 490 for a success with violation,
\* 500 -> 430 for a failure with violation).
C17_PenaltiesCompose ==
    [][Recorded =>
          /\ (~WasSuccess /\ ~WasViolation) => NewScore = Max(OldScore - 50, 0)
          /\ (~WasSuccess /\ WasViolation)
                => NewScore = Max(Max(OldScore - 50, 0) - 20, 0)
          /\ (WasSuccess /\ WasViolation /\ OldScore < 990)
                => NewScore = Max(OldScore + 10 - 20, 0)
          /\ (OldScore = 500 /\ WasSuccess /\ WasViolation) => NewScore = 490
          /\ (OldScore = 500 /\ ~WasSuccess /\ WasViolation) => NewScore = 430]_vars

\* eight violating outcomes, one of them a success: both penalties applied
\* in each call and the score met its floor
C17_Witness ==
    /\ regCall.op = "recordOutcome"
    /\ regCall.err = ""
    /\ agents[ScoreAgent].reputationScore = 0
    /\ agents[ScoreAgent].totalTasks = 8
    /\ agents[ScoreAgent].successfulTasks = 1
    /\ agents[ScoreAgent].slaViolations = 8

-----------------------------------------------------------------------------
(* Claims about AgentRegistry's access rules, checked under SpecRegistry *)

RegistryUnchanged ==
    /\ agents' = agents
    /\ agentList' = agentList
    /\ orchestrators' = orchestrators

IsRegistered(a) == agents[a].agentOwner # ZERO

\* C11: recordOutcome changes state only when its caller holds the
\* orchestrator role at the time of the call; a caller without it (never
\* granted, or revoked) gets NotOrchestrator and nothing changes; the role
\* map changes only in a setOrchestrator call by the contract owner, and
\* any other caller of setOrchestrator gets NotOwner and nothing changes.
C11_RoleGatesRecordOutcome ==
    [][/\ (regCall'.op = "recordOutcome" /\ ~orchestrators[regCall'.sender])
             => (regCall'.err = "NotOrchestrator" /\ RegistryUnchanged)
       /\ (regCall'.op = "setOrchestrator" /\ regCall'.sender # REGISTRY_OWNER)
             => (regCall'.err = "NotOwner" /\ RegistryUnchanged)
       /\ orchestrators' # orchestrators
             => (regCall'.op = "setOrchestrator" /\ regCall'.sender = REGISTRY_OWNER)]_vars

\* the orchestrator recorded an outcome, lost the role, and is now refused
C11_Witness ==
    /\ regCall.op = "recordOutcome"
    /\ regCall.sender = "orch"
    /\ regCall.err = "NotOrchestrator"
    /\ ~orchestrators["orch"]
    /\ TotalTasks(RegAgents) = 1

\* C18: a recordOutcome call for an address with no registry entry fails
\* and creates or changes no record, whoever calls it; called by an
\* orchestrator it fails with AgentNotRegistered.
C18_UnregisteredAgentRejected ==
    [][\A a \in AgentAddrs :
          (regCall'.op = "recordOutcome" /\ regCall'.agent = a /\ ~IsRegistered(a))
          => /\ regCall'.err # ""
             /\ RegistryUnchanged
             /\ orchestrators[regCall'.sender]
                   => regCall'.err = "AgentNotRegistered"]_vars

C18_Witness ==
    /\ regCall.op = "recordOutcome"
    /\ regCall.sender = "orch"
    /\ orchestrators["orch"]
    /\ regCall.err = "AgentNotRegistered"
    /\ ~IsRegistered(regCall.agent)
    /\ agentList # <<>>

\* C19: a registerAgent call for an address that is already registered
\* fails with AgentAlreadyRegistered for every caller and leaves the record
\* and the agent list unchanged; the agent list holds each registered
\* address once, so the agent count is the number of registered addresses.
C19_ReRegistrationRejected ==
    /\ [](/\ Len(agentList) = Cardinality({a \in AgentAddrs : IsRegistered(a)})
          /\ \A i \in DOMAIN agentList : IsRegistered(agentList[i])
          /\ \A i, j \in DOMAIN agentList : agentList[i] = agentList[j] => i = j)
    /\ [][\A a \in AgentAddrs :
             (regCall'.op = "registerAgent" /\ regCall'.agent = a /\ IsRegistered(a))
             => (regCall'.err = "AgentAlreadyRegistered" /\ RegistryUnchanged)]_vars

\* a second registration of a used agent by somebody else than its owner
C19_Witness ==
    /\ regCall.op = "registerAgent"
    /\ regCall.err = "AgentAlreadyRegistered"
    /\ IsRegistered(regCall.agent)
    /\ agents[regCall.agent].agentOwner # regCall.sender
    /\ agents[regCall.agent].totalTasks = 1
    /\ Len(agentList) = 2

\* C20: an updateMetadata call succeeds only when its caller is the address
\* that registered the agent; any other caller, and any caller for an
\* unregistered agent, gets NotAgentOwner and nothing changes; a successful
\* call raises metadataVersion by exactly 1 and leaves the owner, the score
\* and the three counters as they were.
C20_UpdateMetadataFrame ==
    [][\A a \in AgentAddrs :
          (regCall'.op = "updateMetadata" /\ regCall'.agent = a)
          => /\ regCall'.sender # agents[a].agentOwner
                   => (regCall'.err = "NotAgentOwner" /\ RegistryUnchanged)
             /\ regCall'.err = ""
                   => /\ regCall'.sender = agents[a].agentOwner
                      /\ agents'[a].metadataVersion = agents[a].metadataVersion + 1
                      /\ agents'[a].agentOwner = agents[a].agentOwner
                      /\ agents'[a].reputationScore = agents[a].reputationScore
                      /\ agents'[a].totalTasks = agents[a].totalTasks
                      /\ agents'[a].successfulTasks = agents[a].successfulTasks
                      /\ agents'[a].slaViolations = agents[a].slaViolations
                      /\ \A b \in AgentAddrs \ {a} : agents'[b] = agents[b]
                      /\ agentList' = agentList
                      /\ orchestrators' = orchestrators]_vars

\* an update of an agent that already has a recorded outcome
C20_Witness ==
    /\ regCall.op = "updateMetadata"
    /\ regCall.err = ""
    /\ agents[regCall.agent].metadataVersion = 2
    /\ agents[regCall.agent].totalTasks = 1
    /\ agents[regCall.agent].reputationScore = 430

-----------------------------------------------------------------------------
(* Claim about deactivation, checked under SpecDeactivation *)

\* C15 (as claimed): in every reachable state an agent whose slaViolations
\* count is at least 5 has isActive = false.
C15_DeactivationPermanent ==
    \A a \in AgentAddrs : agents[a].slaViolations >= 5 => ~agents[a].isActive

-----------------------------------------------------------------------------
(* Further claims about VerificationEngine.verify, checked under SpecVerify *)

Late == {i \in DOMAIN agentResults : ~OnTime(agentResults[i])}
Listed(addr) == \E k \in DOMAIN report.slaViolations : report.slaViolations[k] = addr
\* the results verify votes over: those whose agent is not listed
Voting == {i \in DOMAIN agentResults : ~Listed(agentResults[i].agentAddress)}
GroupSize(i) ==
    Cardinality({j \in Voting : SameAnswer(agentResults[i], agentResults[j])})
DistinctAgents ==
    \A i, j \in DOMAIN agentResults :
        agentResults[i].agentAddress = agentResults[j].agentAddress => i = j

\* C26: every late result's agent is listed in slaViolations, no agent that
\* was on time throughout is listed, no late result is in the vote or in the
\* confidence denominator; with 3 agents, 1 late and the other 2 agreeing,
\* agentsAgreed = 2, confidenceScore = 1 and passed.
C26_LateResultsExcluded ==
    Verified =>
        /\ \A i \in Late : Listed(agentResults[i].agentAddress)
        /\ \A k \in DOMAIN report.slaViolations :
              \E i \in Late : agentResults[i].agentAddress = report.slaViolations[k]
        /\ Len(report.slaViolations) = Cardinality(Late)
        /\ Voting \cap Late = {}
        /\ Voting # {} =>
              /\ report.confidenceScore.den = Cardinality(Voting)
              /\ report.confidenceScore.num = report.agentsAgreed
              /\ \E i \in Voting : report.agentsAgreed = GroupSize(i)
        /\ (/\ Len(agentResults) = 3
            /\ DistinctAgents
            /\ Cardinality(Late) = 1
            /\ \A i, j \in Voting : SameAnswer(agentResults[i], agentResults[j]))
           => (/\ report.agentsAgreed = 2
               /\ report.confidenceScore.num = report.confidenceScore.den
               /\ report.passed)

\* three agents, the second late, the other two agreeing up to case and
\* white space
C26_Witness ==
    /\ Verified
    /\ Len(agentResults) = 3
    /\ DistinctAgents
    /\ Late = {2}
    /\ agentResults[1].result = Str_Ab
    /\ agentResults[3].result = Str_ab
    /\ report.slaViolations = <<agentResults[2].agentAddress>>
    /\ report.agentsAgreed = 2
    /\ report.passed

\* C29 (as claimed): among the groups of maximal size the winner is the one
\* whose first member comes first in the input order, and consensusResult
\* is that member's payload as it was received.
C29_TieBreakFirstSeen ==
    (Verified /\ Voting # {}) =>
        LET best == CHOOSE i \in Voting :
                        /\ \A j \in Voting : GroupSize(j) <= GroupSize(i)
                        /\ \A j \in Voting : GroupSize(j) = GroupSize(i) => i <= j
        IN  report.consensusResult = agentResults[best].result

\* C30: for an empty result list, and when every result is an SLA violator,
\* the report has passed = false, confidenceScore = 0, agentsAgreed = 0,
\* consensusResult = null, agentsQueried = the number of results and
\* slaViolations lists every late agent.
C30_NoSurvivorsFails ==
    (Verified /\ Voting = {}) =>
        /\ ~report.passed
        /\ report.confidenceScore.num = 0
        /\ report.agentsAgreed = 0
        /\ report.consensusResult = NULL
        /\ report.agentsQueried = Len(agentResults)
        /\ Len(report.slaViolations) = Cardinality(Late)
        /\ \A i \in Late : Listed(agentResults[i].agentAddress)

C30_Witness ==
    /\ Verified
    /\ Len(agentResults) = 3
    /\ Late = {1, 2, 3}
    /\ Len(report.slaViolations) = 3
    /\ report.agentsQueried = 3
    /\ ~report.passed

-----------------------------------------------------------------------------
(* Further claims about the CRE orchestrator cycle, checked under SpecCron *)

CronSlot == slotOf(taskIdPadded(CronTaskId))
Judged == settleCalls # <<>>
Votes == {i \in DOMAIN results : results[i].result # FAILED}
Punctual == {i \in DOMAIN results : results[i].responseTime <= SLA_THRESHOLD_MS}
Alike(i, j) == normalise(results[i].result) = normalise(results[j].result)

\* C22: a cycle run for a task whose escrow is already settled moves no
\* tokens, changes no payment record and issues no recordOutcome call (no
\* agent's score or counter changes); it ends with an error, not with a
\* result.
C22_SettledTaskRerunInert ==
    /\ [](cronPc = "error" =>
            /\ repCalls = <<>>
            /\ regCall = NoRegCall
            /\ \A a \in AgentAddrs :
                  /\ agents[a].totalTasks = 0
                  /\ agents[a].successfulTasks = 0
                  /\ agents[a].slaViolations = 0)
    /\ [][(cronPc = "settle" /\ Settled(CronSlot)) =>
            /\ cronPc' = "error"
            /\ balanceOf' = balanceOf
            /\ payments' = payments
            /\ repCalls' = <<>>
            /\ UNCHANGED registryVars]_vars

\* the buyer was refunded; a later cycle passes and asks for a release
C22_Witness ==
    /\ cronPc = "error"
    /\ payments[CronSlot].isRefunded
    /\ passed
    /\ settleCalls = <<[action |-> "release", taskId |-> taskIdPadded(CronTaskId)]>>
    /\ lastCall.err = "Payment already settled"
    /\ balanceOf["seller"] = 0
    /\ balanceOf["buyer"] = InitialFunds

\* C24 (as claimed): when the task passes, no recordOutcome call with
\* wasSuccessful = true is issued for an agent whose verified result
\* matches no other agent's result.
C24_DissenterNotRewarded ==
    \A k \in DOMAIN repCalls :
        repCalls[k].wasSuccessful =>
            \A i \in Votes :
                results[i].agentAddress = repCalls[k].agent =>
                    \E j \in Votes : j # i /\ Alike(i, j)

C27_LateResultNoVote ==
    (Judged /\ passed) =>
        \E i, j \in Votes \cap Punctual :
            i # j /\ results[i].result = results[j].result

\* C28 (as claimed): two verified results that differ only in letter case
\* or surrounding white space match: the cycle passes and releases.
C28_CaseInsensitiveMatch ==
    (Judged /\ \E i, j \in Votes : i # j /\ Alike(i, j)) =>
        (passed /\ settleCalls[1].action = "release")

-----------------------------------------------------------------------------
(* Independence of tasks, checked under Spec *)

\* C21: a lockPayment, releasePayment or refundPayment call for one task
\* leaves the record of every other task unchanged, and a locked, unsettled
\* task can still be released or refunded by the orchestrator whatever was
\* done to the others: the call succeeds and moves exactly that task's
\* amount from the escrow to that task's seller or buyer.
C21_TasksIndependent ==
    /\ [][\A t \in TaskIds :
            lastCall'.taskId # t => payments'[t] = payments[t]]_vars
    /\ [][\A t \in TaskIds :
            (/\ EverLocked(t)
             /\ ~Settled(t)
             /\ lastCall'.op \in SettleOps
             /\ lastCall'.taskId = t
             /\ lastCall'.sender = orchestrator)
            => LET p == payments[t]
                   to == IF lastCall'.op = "releasePayment" THEN p.seller ELSE p.buyer
               IN  /\ lastCall'.err = ""
                   /\ payments'[t].isReleased = (lastCall'.op = "releasePayment")
                   /\ payments'[t].isRefunded = (lastCall'.op = "refundPayment")
                   /\ payments'[t].amount = p.amount
                   /\ balanceOf' =
                        IF to = ESCROW THEN balanceOf
                        ELSE [balanceOf EXCEPT ![ESCROW] = @ - p.amount,
                                               ![to] = @ + p.amount]]_vars

\* task-a (amount 1) was released, then task-b (amount 2) refunded in full
C21_Witness ==
    /\ payments["task-a"].isReleased
    /\ payments["task-a"].amount = 1
    /\ payments["task-a"].seller = "seller"
    /\ payments["task-b"].isRefunded
    /\ ~payments["task-b"].isReleased
    /\ payments["task-b"].amount = 2
    /\ payments["task-b"].buyer = "outsider"
    /\ lastCall = [op |-> "refundPayment", sender |-> orchestrator,
                   taskId |-> "task-b", err |-> ""]
    /\ balanceOf["outsider"] = InitialFunds
    /\ balanceOf["seller"] = 1
    /\ balanceOf[ESCROW] = 0

-----------------------------------------------------------------------------
(* Two settlement calls on one task, checked under SpecReentrant *)

RECURSIVE SumOf(_, _)
SumOf(f, S) ==
    IF S = {} THEN 0
    ELSE LET t == CHOOSE x \in S : TRUE IN f[t] + SumOf(f, S \ {t})

\* C23: of two release / refund calls on the same locked task, in either
\* order or with the second made from inside the token transfer of the
\* first, the first to pass the guard succeeds and the other fails; a
\* settlement call takes out of the escrow exactly the amounts of the tasks
\* it settles, each once.
C23_ExactlyOneSettles ==
    /\ [][\A t \in TaskIds :
            (Settled(t) /\ lastCall'.op \in SettleOps /\ lastCall'.taskId = t)
            => (lastCall'.err # "" /\ payments'[t] = payments[t])]_vars
    /\ [][(nested'.op \in SettleOps /\ nested'.taskId = lastCall'.taskId)
            => (lastCall'.err = "" /\ nested'.err # "")]_vars
    /\ [][lastCall'.op \in SettleOps =>
            LET out == [t \in TaskIds |->
                          IF /\ ~Settled(t)
                             /\ payments'[t].isReleased \/ payments'[t].isRefunded
                             /\ ESCROW # (IF payments'[t].isReleased
                                          THEN payments[t].seller
                                          ELSE payments[t].buyer)
                          THEN payments[t].amount ELSE 0]
            IN  /\ balanceOf'[ESCROW] = balanceOf[ESCROW] - SumOf(out, TaskIds)
                /\ \A t \in TaskIds :
                      /\ payments'[t].amount = payments[t].amount
                      /\ ~(payments'[t].isReleased /\ payments'[t].isRefunded)
                      /\ Settled(t) => payments'[t] = payments[t]]_vars

\* task-a is released; the refund of task-a attempted from inside the
\* transfer fails, although the escrow still holds task-b's funds
C23_Witness ==
    /\ lastCall = [op |-> "releasePayment", sender |-> orchestrator,
                   taskId |-> "task-a", err |-> ""]
    /\ nested = [op |-> "refundPayment", sender |-> orchestrator,
                 taskId |-> "task-a", err |-> "Payment already settled"]
    /\ payments["task-a"].isReleased
    /\ ~payments["task-a"].isRefunded
    /\ payments["task-a"].amount = 1
    /\ payments["task-a"].seller = "seller"
    /\ balanceOf["seller"] = 1
    /\ payments["task-b"].amount = 1
    /\ ~Settled("task-b")
    /\ balanceOf[ESCROW] = 1

-----------------------------------------------------------------------------
(* Claims about how a cycle ends, checked under SpecCron *)

Completed == cronPc \in {"done", "aborted"}

\* C31 (as claimed): a cycle that returns has issued its one settlement
\* call, a refund when there was no agent to query, and leaves no locked
\* task unsettled.
C31_NoAgentsRefunds ==
    Completed =>
        /\ Len(settleCalls) = 1
        /\ results = <<>> => settleCalls[1].action = "refund"
        /\ EverLocked(CronSlot) => Settled(CronSlot)

\* C32 (as claimed): when a cycle has returned, every agent whose result is
\* the failure sentinel has had a recordOutcome call with
\* wasSuccessful = false issued for it.
C32_SentinelCountedAgainstAgent ==
    cronPc = "done" =>
        \A i \in DOMAIN results :
            results[i].result = FAILED =>
                \E k \in DOMAIN repCalls :
                    /\ repCalls[k].agent \in
                          {results[i].agentAddress, AgentOfEndpoint(endpoints[i])}
                    /\ ~repCalls[k].wasSuccessful

-----------------------------------------------------------------------------
(* recordOutcome's counters, checked under SpecCounters *)

\* C35: a successful recordOutcome call raises the agent's totalTasks by 1,
\* successfulTasks by 1 exactly if wasSuccessful, slaViolations by 1 exactly
\* if slaViolation, and leaves its owner, metadataURI, metadataVersion and
\* every other agent's record unchanged; a call that fails changes no
\* record; so successfulTasks <= totalTasks and slaViolations <= totalTasks
\* always.
C35_OutcomeCounters ==
    /\ [](\A a \in AgentAddrs :
            /\ agents[a].successfulTasks <= agents[a].totalTasks
            /\ agents[a].slaViolations <= agents[a].totalTasks)
    /\ [][regCall'.op = "recordOutcome" =>
            LET c == repCalls'[1]
                old == agents[c.agent]
                new == agents'[c.agent]
            IN  IF regCall'.err # "" THEN agents' = agents
                ELSE /\ new.totalTasks = old.totalTasks + 1
                     /\ new.successfulTasks =
                          old.successfulTasks + (IF c.wasSuccessful THEN 1 ELSE 0)
                     /\ new.slaViolations =
                          old.slaViolations + (IF c.slaViolation THEN 1 ELSE 0)
                     /\ new.agentOwner = old.agentOwner
                     /\ new.metadataURI = old.metadataURI
                     /\ new.metadataVersion = old.metadataVersion
                     /\ \A b \in AgentAddrs \ {c.agent} : agents'[b] = agents[b]
                     /\ UNCHANGED <<agentList, orchestrators>>]_vars

\* agent 1: three outcomes, one of them a success, two of them SLA
\* violations, while agent 2 has one failed outcome on record
C35_Witness ==
    /\ agents["0xAgent1"].totalTasks = 3
    /\ agents["0xAgent1"].successfulTasks = 1
    /\ agents["0xAgent1"].slaViolations = 2
    /\ agents["0xAgent2"].totalTasks = 1
    /\ agents["0xAgent2"].successfulTasks = 0
    /\ agents["0xAgent1"].agentOwner = "dev"
    /\ agents["0xAgent1"].metadataVersion = 1
    /\ regCall.op = "recordOutcome"
    /\ regCall.err = ""

-----------------------------------------------------------------------------
(* fetchAgentResult's failure handling, checked under SpecCron *)

\* C33: every fetch ends with one more result and the cycle goes on to the
\* next endpoint or to verification, never to an error; a result of the
\* catch branch (no signature stored), a result without an agentAddress of
\* its own, and a result whose signature is missing or malformed all carry
\* '__FAILED__'.
C33_FetchNeverThrows ==
    /\ [](\A i \in DOMAIN results :
            (\/ results[i].signature.form # "signed"
             \/ results[i].agentAddress = endpoints[i])
            => results[i].result = FAILED)
    /\ [](cronPc = "fetch" => Len(results) < Len(endpoints))
    /\ [](cronPc \in {"settle", "reputation", "done"} =>
            Len(results) = Len(endpoints))
    /\ [][cronPc = "fetch" =>
            /\ Len(results') = Len(results) + 1
            /\ SubSeq(results', 1, Len(results)) = results
            /\ cronPc' \in {"fetch", "settle"}]_vars

\* the first agent is unreachable, the second sends no agentAddress, the
\* third no signature; the cycle still settles (a refund) and returns
C33_Witness ==
    /\ cronPc = "done"
    /\ Len(results) = 3
    /\ results[1] = fetchFailed(Endpoint(1), SLA_THRESHOLD_MS)
    /\ results[2].agentAddress = Endpoint(2)
    /\ results[2].signature.form = "signed"
    /\ results[2].result = FAILED
    /\ results[3].signature = MockSig
    /\ results[3].result = FAILED
    /\ settleCalls[1].action = "refund"

-----------------------------------------------------------------------------
(* verifyResults, checked under SpecConsensus *)

\* C36 (as claimed): the verdict is true exactly if some result string is
\* carried by at least two results that are not the failure sentinel,
\* whatever their order; otherwise it is false and the cycle refunds.
C36_TwoEqualResultsPass ==
    Judged =>
        /\ passed <=> \E i, j \in Votes : i # j /\ results[i].result = results[j].result
        /\ ~passed => settleCalls[1].action = "refund"

-----------------------------------------------------------------------------
(* The numbers of a VerificationReport, checked under SpecVerify *)

\* C37: in every report 0 <= confidenceScore <= 1; agentsAgreed is at most
\* agentsQueried - |slaViolations| when the agents' addresses are distinct;
\* confidenceScore = agentsAgreed / (results that entered the vote) when
\* some did; and passed implies a consensusResult and agentsAgreed >= 1.
C37_ReportNumbers ==
    Verified =>
        /\ report.confidenceScore.den > 0
        /\ 0 <= report.confidenceScore.num
        /\ report.confidenceScore.num <= report.confidenceScore.den
        /\ report.agentsQueried = Len(agentResults)
        /\ DistinctAgents =>
              report.agentsAgreed <= report.agentsQueried - Len(report.slaViolations)
        /\ Voting # {} =>
              /\ report.confidenceScore.num = report.agentsAgreed
              /\ report.confidenceScore.den = Cardinality(Voting)
        /\ report.passed =>
              /\ report.consensusResult # NULL
              /\ report.agentsAgreed >= 1

\* three agents on time, two of them agreeing: 2/3 is below the default
\* threshold, the report names the majority's result and does not pass
C37_Witness ==
    /\ Verified
    /\ Len(agentResults) = 3
    /\ DistinctAgents
    /\ Late = {}
    /\ report.confidenceScore = [num |-> 2, den |-> 3]
    /\ report.agentsAgreed = 2
    /\ report.consensusResult # NULL
    /\ ~report.passed

-----------------------------------------------------------------------------
(* The escrow key of a task id, checked under SpecTaskKey *)

\* C38 (as claimed): the bytes32 key a cycle settles is the key of no task
\* id other than the configured one, and the escrow entry locked for
\* CronTaskId is released or refunded only by a cycle configured for
\* CronTaskId.
C38_TaskKeyInjective ==
    /\ Judged =>
          \A id \in {CronTaskId, OtherTaskId, ShortTaskId} :
              id # config.taskId => settleCalls[1].taskId # taskIdPadded(id)
    /\ Settled(CronSlot) => config.taskId = CronTaskId

-----------------------------------------------------------------------------
(* Settlement and the token's answer, checked under SpecSoftToken *)

\* C39 (as claimed): a task becomes released or refunded only in a call
\* that moved its amount from the escrow to the seller or the buyer, and a
\* payment is recorded only in a lockPayment call that moved its amount from
\* the caller to the escrow.
C39_MarkedOnlyIfTransferred ==
    [][\A t \in TaskIds :
          /\ (~Settled(t) /\ (payments'[t].isReleased \/ payments'[t].isRefunded))
             => LET to == IF payments'[t].isReleased THEN payments[t].seller
                          ELSE payments[t].buyer
                IN  /\ balanceOf'[ESCROW] = balanceOf[ESCROW] - payments[t].amount
                    /\ balanceOf'[to] = balanceOf[to] + payments[t].amount
          /\ (lastCall'.op = "lockPayment" /\ payments'[t] # payments[t])
             => /\ balanceOf'[ESCROW] = balanceOf[ESCROW] + payments'[t].amount
                /\ balanceOf'[lastCall'.sender] =
                      balanceOf[lastCall'.sender] - payments'[t].amount]_vars

=============================================================================
